---- MODULE Spec2Model ----
(***************************************************************************)
(* Model of the trailer-house inquiry backend (src/app.py).                *)
(*                                                                         *)
(* State: the process configuration (SHEETS_AVAILABLE, GOOGLE_SHEET_KEY),  *)
(* the credential file on disk, the first worksheet of the remote          *)
(* spreadsheet, and for every POST /submit in flight the request body, the *)
(* position of its handler, its local credentials_dict and its response.   *)
(* GET /check-creds is a second handler with its own position.             *)
(*                                                                         *)
(* A handler is cut into steps at the points where it reads the credential *)
(* file or calls the remote spreadsheet API; everything local between two  *)
(* such points belongs to the step that precedes it.                       *)
(***************************************************************************)
EXTENDS Integers, Sequences, FiniteSets, TLC

VARIABLES SHEETS_AVAILABLE, GOOGLE_SHEET_KEY, credFile, rotations,
          worksheet, request, pc, credentials_dict, response, obs,
          diagnostic, lastLoaded, ccpc, ccObs, ccResponse

vars == <<SHEETS_AVAILABLE, GOOGLE_SHEET_KEY, credFile, rotations,
          worksheet, request, pc, credentials_dict, response, obs,
          diagnostic, lastLoaded, ccpc, ccObs, ccResponse>>

(***************************************************************************)
(* Bounds                                                                  *)
(***************************************************************************)
\* number of POST /submit requests that may be in flight together
NumReqs == 2
\* number of times the operator replaces the credential file
MaxRotations == 1

Reqs == 1..NumReqs

\* Python's None where a credential record is expected
None == [present |-> FALSE, keys |-> {}, client_email |-> ""]

(***************************************************************************)
(* Request bodies                                                          *)
(***************************************************************************)
required_fields == <<"name", "email", "phone", "content">>

RequiredFieldSet == {required_fields[i] : i \in 1..Len(required_fields)}

\* a field of the body: absent, "" , a falsy JSON value (null, 0, false,
\* []), or a non-empty string
JsonValues == {"absent", "empty", "null", "text"}
FormValues == {"absent", "empty", "text"}

\* consultation_type: absent, one string, a list of strings, or a list
\* holding a non-string element
ConsultationTypes == {"absent", "str", "list_str", "list_mixed"}

Body(kind, fields, ctype) ==
    [kind |-> kind, fields |-> fields, consultation_type |-> ctype]

AllText == [f \in RequiredFieldSet |-> "text"]

AllAbsent == [f \in RequiredFieldSet |-> "absent"]

\* a request slot no client uses
NoRequest == Body("none", AllAbsent, "absent")

\* every body the single-request specification submits
AllBodies ==
    {Body("json_object", fs, "str") : fs \in [RequiredFieldSet -> JsonValues]}
    \cup {Body("json_object", AllText, c) : c \in ConsultationTypes}
    \cup {Body("form", fs, "absent") : fs \in [RequiredFieldSet -> FormValues]}
    \cup {Body("json_other", AllAbsent, "absent"),
          Body("json_malformed", AllAbsent, "absent")}

\* the bodies the concurrent specification submits
SmallBodies ==
    {Body("json_object", AllText, "str"),
     Body("json_object", [AllText EXCEPT !["name"] = "empty"], "str")}

\* `if request.is_json: data = request.json else: data = request.form.to_dict()`
\* a body announced as JSON that does not parse raises BadRequest; any other
\* JSON value (list, string, number, null) is handed on as it is
GetData(b) ==
    IF b.kind = "json_malformed"
    THEN [raised |-> TRUE, exc |-> "BadRequest", mapping |-> FALSE]
    ELSE [raised |-> FALSE, exc |-> "none",
          mapping |-> b.kind \in {"json_object", "form"}]

\* Python truthiness of data.get(field): None, "", 0, false, [] are falsy
\* (variant: only a missing key or null counts as falsy)
Truthy_nonnull(v) == v \in {"text", "empty"}

Truthy(v) == v = "text"

\* the loop `for field in required_fields: if not data.get(field): append`
RECURSIVE MissingFrom(_, _)
\* (variant: the list is built back to front)
MissingFrom_unordered(b, i) ==
    IF i > Len(required_fields) THEN <<>>
    ELSE IF Truthy(b.fields[required_fields[i]])
         THEN MissingFrom(b, i + 1)
         ELSE Append(MissingFrom(b, i + 1), required_fields[i])

MissingFrom(b, i) ==
    IF i > Len(required_fields) THEN <<>>
    ELSE IF Truthy(b.fields[required_fields[i]])
         THEN MissingFrom(b, i + 1)
         ELSE <<required_fields[i]>> \o MissingFrom(b, i + 1)

\* lines 327-351: parse the body, touch data.get, collect missing fields
Validate(b) ==
    LET d == GetData(b) IN
    IF d.raised THEN [raised |-> TRUE, exc |-> d.exc, missing |-> <<>>]
    ELSE IF ~d.mapping
         THEN [raised |-> TRUE, exc |-> "AttributeError", missing |-> <<>>]
         ELSE [raised |-> FALSE, exc |-> "none", missing |-> MissingFrom(b, 1)]

(***************************************************************************)
(* Responses of POST /submit                                               *)
(***************************************************************************)
NoResponse ==
    [status |-> 0, success |-> FALSE, missing_fields |-> <<>>,
     sheets_saved |-> FALSE, error |-> FALSE, propagated |-> FALSE]

Response400(missing) ==
    [status |-> 400, success |-> FALSE, missing_fields |-> missing,
     sheets_saved |-> FALSE, error |-> TRUE, propagated |-> FALSE]

Response200(sheets_success) ==
    [status |-> 200, success |-> TRUE, missing_fields |-> <<>>,
     sheets_saved |-> sheets_success, error |-> FALSE, propagated |-> FALSE]

\* `except Exception as e: return jsonify({success: False, error: str(e)}), 500`
\* (variant: only AttributeError is caught)
TopLevelCatch_narrow(exc) ==
    IF exc = "AttributeError"
    THEN [status |-> 500, success |-> FALSE, missing_fields |-> <<>>,
          sheets_saved |-> FALSE, error |-> TRUE, propagated |-> FALSE]
    ELSE [NoResponse EXCEPT !.propagated = TRUE]

TopLevelCatch(exc) ==
    [status |-> 500, success |-> FALSE, missing_fields |-> <<>>,
     sheets_saved |-> FALSE, error |-> TRUE, propagated |-> FALSE]

\* lines 356-376: what submit_form answers once save_to_google_sheets has
\* returned true, returned false, or raised
\* (variant: a failed write fails the request)
SubmitAfterSave_strict(ret) ==
    IF ret = "true" THEN Response200(TRUE)
    ELSE TopLevelCatch("SaveError")

SubmitAfterSave(ret) ==
    IF ret = "raise" THEN TopLevelCatch("SaveError")
    ELSE Response200(ret = "true")

(***************************************************************************)
(* The credential file                                                     *)
(***************************************************************************)
required == {"type", "project_id", "private_key_id", "private_key",
             "client_email"}

\* kind: missing, unreadable (open fails), badjson (json.load fails),
\* scalar (JSON number, boolean or null), array, string, object.
\* keys: the required names that are keys of the object, elements of the
\* array, or substrings of the string.  email: the value of client_email.
File(kind, keys, email) == [kind |-> kind, keys |-> keys, email |-> email]

MissingFile == File("missing", {}, "")

\* no file state observed yet
NoFile == File("unseen", {}, "")

KeySets == {required, {}} \cup {required \ {k} : k \in required}

Emails == {"sa1", "sa2"}

ObjectFiles ==
    {File("object", ks, e) : ks \in {s \in KeySets : "client_email" \in s},
                             e \in Emails}
    \cup {File("object", ks, "") : ks \in {s \in KeySets : "client_email" \notin s}}

AllFiles ==
    {MissingFile, File("unreadable", {}, ""), File("badjson", {}, ""),
     File("scalar", {}, ""), File("array", required, ""),
     File("array", {}, ""), File("string", required, ""),
     File("string", {}, "")}
    \cup ObjectFiles

\* the files the concurrent specification starts from
SmallFiles == {MissingFile, File("object", required, "sa1")}

\* what an operator puts in place of the file: removes it, corrupts it, or
\* rotates it to another service account
OperatorFiles ==
    {MissingFile, File("badjson", {}, "")}
    \cup {File("object", required, e) : e \in Emails}

\* `os.path.exists(CREDENTIALS_FILE_PATH)`
Exists(f) == f.kind # "missing"

\* lines 190-207 of load_credentials, the file being f when it is opened:
\* open or json.load may raise; `field not in credentials` raises on a
\* scalar and is membership or substring search otherwise; the log line
\* `credentials.get(...)` raises on anything but an object; every exception
\* ends in `return None`
\* (variant: client_email is not among the verified keys)
ReadCredentials_fourKeys(f) ==
    IF f.kind \in {"missing", "unreadable", "badjson", "scalar"} THEN None
    ELSE LET missing == {k \in required \ {"client_email"} : k \notin f.keys} IN
         IF missing # {} THEN None
         ELSE IF f.kind # "object" THEN None
         ELSE [present |-> TRUE, keys |-> f.keys, client_email |-> f.email]

ReadCredentials(f) ==
    IF f.kind \in {"missing", "unreadable", "badjson", "scalar"} THEN None
    ELSE LET missing == {k \in required : k \notin f.keys} IN
         IF missing # {} THEN None
         ELSE IF f.kind # "object" THEN None
         ELSE [present |-> TRUE, keys |-> f.keys, client_email |-> f.email]

\* load_credentials after the existence test: nothing is kept between calls
\* (variant: a record loaded earlier is reused)
LoadCredentials_cached(f) ==
    IF lastLoaded # None THEN lastLoaded ELSE ReadCredentials(f)

LoadCredentials(f) == ReadCredentials(f)

(***************************************************************************)
(* save_to_google_sheets                                                   *)
(***************************************************************************)
\* lines 211-217: the two early returns
SaveConfigured(avail, key) == avail /\ key

\* the message of an exception raised by the API client, as the set of the
\* markers it contains
ErrorMessages ==
    {{}, {"invalid_grant"}, {"PERMISSION_DENIED"}, {"not found"}, {"sheet1"},
     {"invalid_grant", "PERMISSION_DENIED"}}

\* the if/elif chain of lines 300-311
Classify(msg) ==
    IF "invalid_grant" \in msg THEN "jwt"
    ELSE IF "PERMISSION_DENIED" \in msg THEN "permission"
    ELSE IF "not found" \in msg THEN "notfound"
    ELSE IF "sheet1" \in msg THEN "sheet1"
    ELSE "generic"

\* lines 295-315: the except branch returns False; its permission message
\* reads credentials_dict, which is unbound before line 228 has run
\* (variant: credentials_dict is taken as unbound in the permission branch)
ExceptBranch_reraise(msg, bound) ==
    [ret |-> IF Classify(msg) = "permission" THEN "raise" ELSE "false",
     diag |-> Classify(msg)]

ExceptBranch(msg, bound) ==
    [ret |-> IF Classify(msg) = "permission" /\ ~bound THEN "raise" ELSE "false",
     diag |-> Classify(msg)]

\* lines 253-268
Header == [kind |-> "header", of |-> 0, consultation_type |-> ""]

\* `existing_headers = worksheet.row_values(1)`
RowValues1(ws) == IF Len(ws) = 0 THEN <<>> ELSE <<ws[1]>>

\* lines 270-284: a list is joined with ', ', which raises TypeError when an
\* element is not a string
BuildRow(r, b) ==
    IF b.consultation_type = "list_mixed"
    THEN [raised |-> TRUE, row |-> Header]
    ELSE [raised |-> FALSE,
          row |-> [kind |-> "data", of |-> r,
                   consultation_type |->
                       CASE b.consultation_type = "absent" -> ""
                         [] b.consultation_type = "str" -> "str"
                         [] OTHER -> "joined"]]

\* `worksheet.append_row(values)`: the remote service puts the row after the
\* last row
AppendRemote(ws, row) == Append(ws, row)

\* how a remote call ends for the caller: it returns, or it raises with a
\* message
CallOutcomes ==
    {[end |-> "ok", msg |-> {}]}
    \cup {[end |-> "failed", msg |-> m] : m \in ErrorMessages}

\* how a remote append ends for the caller: "ok" applied and returned,
\* "failed" raised and not applied, "lost" applied by the service while the
\* call raised because the reply did not arrive
AppendOutcomes == CallOutcomes \cup {[end |-> "lost", msg |-> {}]}

\* lines 289-293 and 295-315: the value save_to_google_sheets returns after
\* its single append of the data row
\* (variant: the failure of the append is swallowed)
AfterAppend_optimistic(outcome, bound) ==
    IF outcome.end = "ok" THEN [ret |-> "true", diag |-> "none"]
    ELSE [ret |-> "true", diag |-> Classify(outcome.msg)]

AfterAppend(outcome, bound) ==
    IF outcome.end = "ok" THEN [ret |-> "true", diag |-> "none"]
    ELSE ExceptBranch(outcome.msg, bound)

(***************************************************************************)
(* What each POST /submit has done so far (history, not program state);    *)
(* diagnostic is the last classification the except branch printed         *)
(***************************************************************************)
NoObs ==
    [saveCalled |-> FALSE, credChecked |-> FALSE, credSeen |-> NoFile,
     remote |-> FALSE, headerAppends |-> 0, dataAppends |-> 0,
     delivery |-> "none", saveRet |-> "none"]

NoCheck == [existed |-> "unknown", seen |-> NoFile]

NoCheckResponse == [status |-> 0, result |-> "", service_account |-> ""]

(***************************************************************************)
(* Initial states                                                          *)
(***************************************************************************)
InitCommon ==
    /\ SHEETS_AVAILABLE \in BOOLEAN
    /\ GOOGLE_SHEET_KEY \in BOOLEAN
    /\ rotations = 0
    /\ worksheet = <<>>
    /\ pc = [r \in Reqs |-> "start"]
    /\ credentials_dict = [r \in Reqs |-> None]
    /\ response = [r \in Reqs |-> NoResponse]
    /\ obs = [r \in Reqs |-> NoObs]
    /\ diagnostic = "none"
    /\ lastLoaded = None
    /\ ccpc = "start"
    /\ ccObs = NoCheck
    /\ ccResponse = NoCheckResponse

\* NumReqs submissions that may overlap
Init ==
    /\ InitCommon
    /\ credFile \in SmallFiles
    /\ request \in [Reqs -> SmallBodies]

\* one submission, any body, any credential file
InitOne ==
    /\ InitCommon
    /\ credFile \in AllFiles
    /\ request \in {[r \in Reqs |-> IF r = 1 THEN b ELSE NoRequest] : b \in AllBodies}

(***************************************************************************)
(* POST /submit                                                            *)
(***************************************************************************)
\* save_to_google_sheets returns (or raises) and submit_form answers
Finish(r, ret) ==
    /\ pc' = [pc EXCEPT ![r] = "done"]
    /\ response' = [response EXCEPT ![r] = SubmitAfterSave(ret)]

\* lines 327-358 and 211-217: parse, validate, decide whether to write
SubmitReceive(r) ==
    /\ pc[r] = "start"
    /\ request[r] # NoRequest
    /\ LET v == Validate(request[r]) IN
       IF v.raised
       THEN /\ pc' = [pc EXCEPT ![r] = "done"]
            /\ response' = [response EXCEPT ![r] = TopLevelCatch(v.exc)]
            /\ obs' = obs
       ELSE IF v.missing # <<>>
       THEN /\ pc' = [pc EXCEPT ![r] = "done"]
            /\ response' = [response EXCEPT ![r] = Response400(v.missing)]
            /\ obs' = obs
       ELSE IF GOOGLE_SHEET_KEY /\ SHEETS_AVAILABLE
       THEN IF SaveConfigured(SHEETS_AVAILABLE, GOOGLE_SHEET_KEY)
            THEN /\ pc' = [pc EXCEPT ![r] = "load_exists"]
                 /\ response' = response
                 /\ obs' = [obs EXCEPT ![r].saveCalled = TRUE]
            ELSE /\ Finish(r, "false")
                 /\ obs' = [obs EXCEPT ![r].saveCalled = TRUE,
                                       ![r].saveRet = "false"]
       ELSE /\ pc' = [pc EXCEPT ![r] = "done"]
            /\ response' = [response EXCEPT ![r] = Response200(FALSE)]
            /\ obs' = obs
    /\ UNCHANGED <<SHEETS_AVAILABLE, GOOGLE_SHEET_KEY, credFile, rotations,
                   worksheet, request, credentials_dict, lastLoaded,
                   diagnostic, ccpc, ccObs, ccResponse>>

\* load_credentials, lines 183-188: the existence test
LoadExists(r) ==
    /\ pc[r] = "load_exists"
    /\ IF Exists(credFile)
       THEN /\ pc' = [pc EXCEPT ![r] = "load_open"]
            /\ response' = response
            /\ obs' = [obs EXCEPT ![r].credChecked = TRUE]
       ELSE /\ Finish(r, "false")
            /\ obs' = [obs EXCEPT ![r].credChecked = TRUE,
                                  ![r].credSeen = credFile,
                                  ![r].saveRet = "false"]
    /\ UNCHANGED <<SHEETS_AVAILABLE, GOOGLE_SHEET_KEY, credFile, rotations,
                   worksheet, request, credentials_dict, lastLoaded,
                   diagnostic, ccpc, ccObs, ccResponse>>

\* load_credentials, lines 190-207, and lines 228-235 of its caller
LoadOpen(r) ==
    /\ pc[r] = "load_open"
    /\ LET c == LoadCredentials(credFile) IN
       /\ credentials_dict' = [credentials_dict EXCEPT ![r] = c]
       /\ lastLoaded' = IF c # None THEN c ELSE lastLoaded
       /\ IF c = None
          THEN /\ Finish(r, "false")
               /\ obs' = [obs EXCEPT ![r].credSeen = credFile,
                                     ![r].saveRet = "false"]
          ELSE /\ pc' = [pc EXCEPT ![r] = "open_sheet"]
               /\ response' = response
               /\ obs' = [obs EXCEPT ![r].credSeen = credFile]
    /\ UNCHANGED <<SHEETS_AVAILABLE, GOOGLE_SHEET_KEY, credFile, rotations,
                   worksheet, request, diagnostic, ccpc, ccObs, ccResponse>>

\* a step of save_to_google_sheets ends in the except branch
Fail(r, msg, o) ==
    LET e == ExceptBranch(msg, credentials_dict[r] # None) IN
    /\ Finish(r, e.ret)
    /\ obs' = [o EXCEPT ![r].saveRet = e.ret]
    /\ diagnostic' = e.diag

\* lines 240-251: build the credentials, authorize, open the spreadsheet by
\* key and take its first worksheet
OpenSheet(r) ==
    /\ pc[r] = "open_sheet"
    /\ \E call \in CallOutcomes :
         LET o == [obs EXCEPT ![r].remote = TRUE] IN
         IF call.end = "ok"
         THEN /\ pc' = [pc EXCEPT ![r] = "row_values"]
              /\ response' = response
              /\ obs' = o
              /\ diagnostic' = diagnostic
         ELSE Fail(r, call.msg, o)
    /\ UNCHANGED <<SHEETS_AVAILABLE, GOOGLE_SHEET_KEY, credFile, rotations,
                   worksheet, request, credentials_dict, lastLoaded,
                   ccpc, ccObs, ccResponse>>

\* lines 270-284 once the header question is settled
ThenBuildRow(r, o) ==
    IF BuildRow(r, request[r]).raised
    THEN Fail(r, {}, o)
    ELSE /\ pc' = [pc EXCEPT ![r] = "append_row"]
         /\ response' = response
         /\ obs' = o
         /\ diagnostic' = diagnostic

\* lines 254-255: read row 1
ReadHeaders(r) ==
    /\ pc[r] = "row_values"
    /\ \E call \in CallOutcomes :
         IF call.end # "ok" THEN Fail(r, call.msg, obs)
         ELSE IF RowValues1(worksheet) = <<>>
              THEN /\ pc' = [pc EXCEPT ![r] = "append_header"]
                   /\ response' = response
                   /\ obs' = obs
                   /\ diagnostic' = diagnostic
              ELSE ThenBuildRow(r, obs)
    /\ UNCHANGED <<SHEETS_AVAILABLE, GOOGLE_SHEET_KEY, credFile, rotations,
                   worksheet, request, credentials_dict, lastLoaded,
                   ccpc, ccObs, ccResponse>>

\* lines 256-268: append the header row
AppendHeaders(r) ==
    /\ pc[r] = "append_header"
    /\ \E call \in AppendOutcomes :
         LET o == [obs EXCEPT ![r].headerAppends = @ + 1] IN
         /\ worksheet' = IF call.end = "failed" THEN worksheet
                         ELSE AppendRemote(worksheet, Header)
         /\ IF call.end = "ok" THEN ThenBuildRow(r, o) ELSE Fail(r, call.msg, o)
    /\ UNCHANGED <<SHEETS_AVAILABLE, GOOGLE_SHEET_KEY, credFile, rotations,
                   request, credentials_dict, lastLoaded,
                   ccpc, ccObs, ccResponse>>

\* lines 289-293: the single append of the data row
AppendRow(r) ==
    /\ pc[r] = "append_row"
    /\ \E call \in AppendOutcomes :
         LET a == AfterAppend(call, credentials_dict[r] # None) IN
         /\ worksheet' = IF call.end = "failed" THEN worksheet
                         ELSE AppendRemote(worksheet, BuildRow(r, request[r]).row)
         /\ Finish(r, a.ret)
         /\ obs' = [obs EXCEPT ![r].dataAppends = @ + 1,
                               ![r].delivery = call.end,
                               ![r].saveRet = a.ret]
         /\ diagnostic' = IF a.diag = "none" THEN diagnostic ELSE a.diag
    /\ UNCHANGED <<SHEETS_AVAILABLE, GOOGLE_SHEET_KEY, credFile, rotations,
                   request, credentials_dict, lastLoaded,
                   ccpc, ccObs, ccResponse>>

(***************************************************************************)
(* GET /check-creds                                                        *)
(***************************************************************************)
\* lines 142-177, the file being f when it is opened
\* (variant: any parsed JSON value is accepted)
CheckRead_lenient(f) ==
    IF f.kind = "object"
    THEN [status |-> 200, result |-> "success",
          service_account |-> IF "client_email" \in f.keys THEN f.email ELSE ""]
    ELSE IF f.kind \in {"array", "string", "scalar"}
    THEN [status |-> 200, result |-> "success", service_account |-> ""]
    ELSE [status |-> 500, result |-> "error", service_account |-> ""]

CheckRead(f) ==
    IF f.kind = "object"
    THEN [status |-> 200, result |-> "success",
          service_account |-> IF "client_email" \in f.keys THEN f.email ELSE ""]
    ELSE [status |-> 500, result |-> "error", service_account |-> ""]

\* lines 134-140
CheckExists ==
    /\ ccpc = "start"
    /\ ccObs' = [ccObs EXCEPT !.existed = IF Exists(credFile) THEN "yes" ELSE "no"]
    /\ IF Exists(credFile)
       THEN /\ ccpc' = "open"
            /\ ccResponse' = ccResponse
       ELSE /\ ccpc' = "done"
            /\ ccResponse' = [status |-> 404, result |-> "error",
                              service_account |-> ""]
    /\ UNCHANGED <<SHEETS_AVAILABLE, GOOGLE_SHEET_KEY, credFile, rotations,
                   worksheet, request, pc, credentials_dict, response, obs,
                   lastLoaded, diagnostic>>

CheckOpen ==
    /\ ccpc = "open"
    /\ ccpc' = "done"
    /\ ccObs' = [ccObs EXCEPT !.seen = credFile]
    /\ ccResponse' = CheckRead(credFile)
    /\ UNCHANGED <<SHEETS_AVAILABLE, GOOGLE_SHEET_KEY, credFile, rotations,
                   worksheet, request, pc, credentials_dict, response, obs,
                   lastLoaded, diagnostic>>

(***************************************************************************)
(* The operator                                                            *)
(***************************************************************************)
\* out-of-band replacement of the credential file
OperatorWrites ==
    /\ rotations < MaxRotations
    /\ \E f \in OperatorFiles :
         /\ f # credFile
         /\ credFile' = f
    /\ rotations' = rotations + 1
    /\ UNCHANGED <<SHEETS_AVAILABLE, GOOGLE_SHEET_KEY, worksheet, request, pc,
                   credentials_dict, response, obs, lastLoaded, diagnostic,
                   ccpc, ccObs, ccResponse>>

Next ==
    \/ \E r \in Reqs : SubmitReceive(r)
    \/ \E r \in Reqs : LoadExists(r)
    \/ \E r \in Reqs : LoadOpen(r)
    \/ \E r \in Reqs : OpenSheet(r)
    \/ \E r \in Reqs : ReadHeaders(r)
    \/ \E r \in Reqs : AppendHeaders(r)
    \/ \E r \in Reqs : AppendRow(r)
    \/ OperatorWrites

\* the submissions together with GET /check-creds
NextOne ==
    \/ Next
    \/ CheckExists
    \/ CheckOpen

\* concurrent submissions
Spec == Init /\ [][Next]_vars

\* one submission over every body and every credential file, and one
\* GET /check-creds
SpecOne == InitOne /\ [][NextOne]_vars

TypeOK ==
    /\ \A r \in Reqs : pc[r] \in {"start", "load_exists", "load_open",
                                  "open_sheet", "row_values", "append_header",
                                  "append_row", "done"}
    /\ ccpc \in {"start", "open", "done"}

(***************************************************************************)
(* Vocabulary of the properties                                            *)
(***************************************************************************)
IsMapping(b) == b.kind \in {"json_object", "form"}

\* the required fields that are absent from the body or falsy in it
AbsentOrFalsy(b) ==
    {f \in RequiredFieldSet : b.fields[f] \in {"absent", "empty", "null"}}

WellFormed(b) == IsMapping(b) /\ AbsentOrFalsy(b) = {}

FieldOrder == [f \in RequiredFieldSet |->
                  CASE f = "name" -> 1 [] f = "email" -> 2
                    [] f = "phone" -> 3 [] OTHER -> 4]

Configured == GOOGLE_SHEET_KEY /\ SHEETS_AVAILABLE

\* the credential record a file state stands for, None when it stands for none
RecordOf(f) ==
    IF f.kind = "object" /\ required \subseteq f.keys
    THEN [present |-> TRUE, keys |-> f.keys, client_email |-> f.email]
    ELSE None

\* the positions of the data rows of submission r in the worksheet
RowsOf(r) ==
    {i \in 1..Len(worksheet) : worksheet[i].kind = "data" /\ worksheet[i].of = r}

HeaderRows == {i \in 1..Len(worksheet) : worksheet[i].kind = "header"}

Untouched(r) ==
    /\ ~obs[r].saveCalled /\ ~obs[r].credChecked /\ ~obs[r].remote
    /\ obs[r].credSeen = NoFile
    /\ obs[r].headerAppends = 0 /\ obs[r].dataAppends = 0
    /\ RowsOf(r) = {}

(***************************************************************************)
(* C1: a submission whose body is a field mapping with at least one of     *)
(* name, email, phone, content absent or falsy is answered 400 with        *)
(* success false, and missing_fields lists exactly the absent or falsy     *)
(* required fields, each once, in the order name, email, phone, content.   *)
(***************************************************************************)
C1_MissingFieldsRejected ==
    \A r \in Reqs :
      (pc[r] = "done" /\ IsMapping(request[r]) /\ AbsentOrFalsy(request[r]) # {})
      => LET m == response[r].missing_fields IN
         /\ response[r].status = 400
         /\ response[r].success = FALSE
         /\ {m[i] : i \in 1..Len(m)} = AbsentOrFalsy(request[r])
         /\ \A i, j \in 1..Len(m) : i < j => FieldOrder[m[i]] < FieldOrder[m[j]]

C1_Witness ==
    \E r \in Reqs :
      /\ pc[r] = "done"
      /\ request[r].kind = "json_object"
      /\ request[r].fields["name"] = "empty"
      /\ request[r].fields["phone"] = "null"
      /\ response[r].status = 400
      /\ response[r].missing_fields = <<"name", "phone">>

(***************************************************************************)
(* C2: a submission whose four required fields are all present and         *)
(* non-empty is answered 200 with success true, whether the write was not  *)
(* attempted, failed, or succeeded.                                        *)
(***************************************************************************)
C2_WellFormedAccepted ==
    \A r \in Reqs :
      (pc[r] = "done" /\ WellFormed(request[r]))
      => /\ response[r].status = 200
         /\ response[r].success = TRUE
         /\ response[r].sheets_saved = (obs[r].saveRet = "true")

C2_Witness ==
    \E r \in Reqs :
      /\ pc[r] = "done"
      /\ WellFormed(request[r])
      /\ obs[r].remote
      /\ obs[r].saveRet = "false"
      /\ response[r].status = 200

(***************************************************************************)
(* C3: save_to_google_sheets never raises to its caller; every invocation  *)
(* that does not complete the append of the data row returns false, also   *)
(* when the except branch builds the permission message from               *)
(* credentials_dict.                                                       *)
(***************************************************************************)
C3_SaveNeverRaises ==
    \A r \in Reqs :
      /\ obs[r].saveRet # "raise"
      /\ (pc[r] = "done" /\ obs[r].saveCalled)
         => /\ obs[r].saveRet \in {"true", "false"}
            /\ obs[r].delivery # "ok" => obs[r].saveRet = "false"

C3_Witness ==
    \E r \in Reqs :
      /\ pc[r] = "done"
      /\ obs[r].remote
      /\ diagnostic = "permission"
      /\ credentials_dict[r] # None
      /\ obs[r].saveRet = "false"

(***************************************************************************)
(* C4: when the credential file is missing, unreadable, not valid JSON,    *)
(* not an object, or lacks one of the five keys, load_credentials gives    *)
(* None and save_to_google_sheets returns false without a remote call;     *)
(* when it is an object with the five keys, load_credentials gives that    *)
(* record.                                                                 *)
(***************************************************************************)
C4_BadCredentialsAbsent ==
    \A r \in Reqs :
      obs[r].credSeen # NoFile
      => IF obs[r].credSeen.kind = "object" /\ required \subseteq obs[r].credSeen.keys
         THEN /\ credentials_dict[r].present
              /\ credentials_dict[r].keys = obs[r].credSeen.keys
              /\ credentials_dict[r].client_email = obs[r].credSeen.email
         ELSE /\ credentials_dict[r] = None
              /\ pc[r] = "done"
              /\ obs[r].saveRet = "false"
              /\ ~obs[r].remote
              /\ obs[r].headerAppends = 0 /\ obs[r].dataAppends = 0

C4_Witness ==
    \E r \in Reqs :
      /\ pc[r] = "done"
      /\ obs[r].credSeen.kind = "object"
      /\ obs[r].credSeen.keys = required \ {"client_email"}
      /\ credentials_dict[r] = None
      /\ obs[r].saveRet = "false"
      /\ ~obs[r].remote

(***************************************************************************)
(* C5: save_to_google_sheets, a credential read or a remote call happens   *)
(* for a submission only if it passed validation and the sheet key is set  *)
(* and the library is available; a request answered 400 touches nothing;   *)
(* a valid request without configuration is answered 200 with              *)
(* sheets_saved false and leaves the worksheet as it was.                  *)
(***************************************************************************)
C5_StateInv ==
    \A r \in Reqs :
      /\ ~Untouched(r) => (WellFormed(request[r]) /\ Configured)
      /\ response[r].status = 400 => Untouched(r)
      /\ (pc[r] = "done" /\ WellFormed(request[r]) /\ ~Configured)
         => /\ response[r].status = 200
            /\ response[r].sheets_saved = FALSE
            /\ Untouched(r)

C5_StepInv ==
    /\ \A r \in Reqs : (pc[r] = "start" /\ pc'[r] = "done") => worksheet' = worksheet
    /\ worksheet' # worksheet
       => \E r \in Reqs : /\ pc[r] \in {"append_header", "append_row"}
                          /\ pc'[r] # pc[r]
                          /\ WellFormed(request[r]) /\ Configured

C5_WriteOnlyWhenValidAndConfigured == []C5_StateInv /\ [][C5_StepInv]_vars

C5_Witness ==
    \E r \in Reqs :
      /\ pc[r] = "done"
      /\ WellFormed(request[r])
      /\ SHEETS_AVAILABLE /\ ~GOOGLE_SHEET_KEY
      /\ response[r].status = 200
      /\ response[r].sheets_saved = FALSE
      /\ worksheet = <<>>

(***************************************************************************)
(* C6: starting from an empty sheet, under any interleaving of valid       *)
(* submissions, the header row is in the sheet at most once, it is row 1,  *)
(* and every data row is below it.                                         *)
(***************************************************************************)
C6_HeaderOnceFirst ==
    worksheet # <<>> => HeaderRows = {1}

(***************************************************************************)
(* C7 as stated: at most one append of the data row per invocation; the    *)
(* invocation returns true exactly when the data row is in the sheet; when *)
(* it returns false no data row of the submission is in the sheet.         *)
(***************************************************************************)
C7_Original ==
    \A r \in Reqs :
      /\ obs[r].dataAppends <= 1
      /\ obs[r].saveRet = "true" => Cardinality(RowsOf(r)) = 1
      /\ obs[r].saveRet = "false" => RowsOf(r) = {}

(***************************************************************************)
(* C7 amended: at most one append of the data row per invocation; the      *)
(* invocation returns true exactly when that append call returned without  *)
(* raising, and then the row was appended as the new last row; when it     *)
(* returns false the sheet holds no data row of the submission unless the  *)
(* service applied the append while the call raised.                       *)
(***************************************************************************)
C7_StateInv ==
    \A r \in Reqs :
      /\ obs[r].dataAppends <= 1
      /\ Cardinality(RowsOf(r)) <= 1
      /\ obs[r].saveRet = "true" <=> obs[r].delivery = "ok"
      /\ obs[r].saveRet = "true" => Cardinality(RowsOf(r)) = 1
      /\ (obs[r].saveRet = "false" /\ RowsOf(r) # {}) => obs[r].delivery = "lost"

C7_StepInv ==
    \A r \in Reqs :
      (obs[r].saveRet # "true" /\ obs'[r].saveRet = "true")
      => /\ Len(worksheet') = Len(worksheet) + 1
         /\ RowsOf(r)' = {Len(worksheet')}
         /\ \A i \in 1..Len(worksheet) : worksheet'[i] = worksheet[i]

C7_SingleAppend == []C7_StateInv /\ [][C7_StepInv]_vars

C7_Witness ==
    \E r, q \in Reqs :
      /\ obs[r].saveRet = "true"
      /\ RowsOf(r) # {}
      /\ obs[q].saveRet = "false"
      /\ obs[q].delivery = "lost"
      /\ RowsOf(q) # {}

(***************************************************************************)
(* C8: an exception raised while submit_form processes a POST is answered  *)
(* with 500, success false and an error message; every POST ends with      *)
(* status 200, 400 or 500 and no exception leaves the handler.             *)
(***************************************************************************)
C8_AlwaysAnswered ==
    \A r \in Reqs :
      /\ ~response[r].propagated
      /\ pc[r] = "done" => response[r].status \in {200, 400, 500}
      /\ (pc[r] = "done" /\ ~IsMapping(request[r]))
         => /\ response[r].status = 500
            /\ response[r].success = FALSE
            /\ response[r].error

C8_Witness ==
    \E r \in Reqs :
      /\ pc[r] = "done"
      /\ request[r].kind = "json_malformed"
      /\ response[r].status = 500
      /\ response[r].success = FALSE

(***************************************************************************)
(* C9: GET /check-creds answers 404 and "error" when the existence test    *)
(* finds no file, 500 and "error" when the file was there but cannot be    *)
(* read or parsed as a JSON object, 200 and "success" with the file's      *)
(* client_email otherwise; its steps change nothing but its own position   *)
(* and response.                                                           *)
(***************************************************************************)
C9_StateInv ==
    ccpc = "done"
    => IF ccObs.existed = "no"
       THEN ccResponse.status = 404 /\ ccResponse.result = "error"
       ELSE IF ccObs.seen.kind # "object"
       THEN ccResponse.status = 500 /\ ccResponse.result = "error"
       ELSE /\ ccResponse.status = 200
            /\ ccResponse.result = "success"
            /\ ccResponse.service_account =
                  IF "client_email" \in ccObs.seen.keys THEN ccObs.seen.email ELSE ""

C9_StepInv ==
    ccpc' # ccpc
    => UNCHANGED <<SHEETS_AVAILABLE, GOOGLE_SHEET_KEY, credFile, rotations,
                   worksheet, request, pc, credentials_dict, response, obs,
                   lastLoaded, diagnostic>>

C9_CheckCreds == []C9_StateInv /\ [][C9_StepInv]_vars

C9_Witness ==
    /\ ccpc = "done"
    /\ ccObs.existed = "yes"
    /\ ccObs.seen.kind = "array"
    /\ ccObs.seen.keys = required
    /\ ccResponse.status = 500

(***************************************************************************)
(* C10: every invocation of save_to_google_sheets that passes the          *)
(* configuration checks consults the credential file, and the record it    *)
(* goes on with is the content of the file at the moment it is read, not a *)
(* record loaded by an earlier invocation.                                 *)
(***************************************************************************)
C10_StateInv ==
    \A r \in Reqs :
      (obs[r].saveCalled /\ pc[r] \notin {"load_exists"}) => obs[r].credChecked

C10_StepInv ==
    \A r \in Reqs :
      (pc[r] = "load_open" /\ pc'[r] # "load_open")
      => credentials_dict'[r] = RecordOf(credFile)

C10_FreshCredentials == []C10_StateInv /\ [][C10_StepInv]_vars

C10_Witness ==
    \E r, q \in Reqs :
      /\ credentials_dict[r].present
      /\ credentials_dict[q].present
      /\ credentials_dict[r].client_email = "sa1"
      /\ credentials_dict[q].client_email = "sa2"

====
